---- MODULE Spec2Model ----
(***************************************************************************)
(* Model of convert_to_pdf.py: main() walks the fixed list `documents`,    *)
(* and for every entry whose Markdown source exists calls                  *)
(* markdown_to_pdf(), which runs pandoc (Markdown -> HTML), then           *)
(* WeasyPrint (HTML -> PDF), then removes the intermediate HTML file.      *)
(* The working directory is a set of existing paths plus the sizes of the  *)
(* PDF files.  The external tools are modelled by their possible outcomes. *)
(***************************************************************************)
EXTENDS Integers, Sequences, FiniteSets, TLC

\* ------------------------------------------------------------------ bounds
\* Largest PDF size considered, in units of SizeUnit bytes.
MaxSize == 1

\* ------------------------------------------------------- program constants
BytesPerMB == 1048576
SizeUnit == BytesPerMB \div 8

\* File names are sequences of tokens, so that str.replace can be modelled.
documents ==
    << << <<"REFERENCE_MANUAL", ".md">>,     <<"REFERENCE_MANUAL", ".pdf">> >>,
       << <<"IMPLEMENTATION_GUIDE", ".md">>, <<"IMPLEMENTATION_GUIDE", ".pdf">> >>,
       << <<"ARCHITECTURE", ".md">>,         <<"ARCHITECTURE", ".pdf">> >> >>

NumDocs == Len(documents)
Jobs == 1..NumDocs

md_file(j) == documents[j][1]
pdf_file(j) == documents[j][2]

\* html_file = md_file.replace('.md', '.html'): every occurrence is replaced.
html_name(md) == [k \in DOMAIN md |-> IF md[k] = ".md" THEN ".html" ELSE md[k]]
html_file(j) == html_name(md_file(j))

MdPaths == {md_file(j) : j \in Jobs}
HtmlPaths == {html_file(j) : j \in Jobs}
PdfPaths == {pdf_file(j) : j \in Jobs}

\* Exit codes subprocess.run can report: 0, an error code, death by signal.
ReturnCodes == {0, 1, -9}

\* Exception classes the render step can raise besides ImportError.
RenderErrors == {"OSError", "ValueError"}

\* Classes derived from Exception among those the steps can raise.
ExceptionSubclasses == {"ImportError", "OSError", "ValueError", "FileNotFoundError"}

Sizes == {k * SizeUnit : k \in 0..MaxSize}
WrittenSizes == {k * SizeUnit : k \in 1..MaxSize}

VARIABLES
    pc,             \* position of the program
    i,              \* index of the job the for loop of main() is at
    files,          \* paths that exist in the working directory
    pdfSize,        \* st_size of every PDF path (0 when absent)
    pandocInstalled,\* the pandoc executable can be started
    weasyInstalled, \* `from weasyprint import HTML` succeeds
    success_count,
    fail_count,
    ret,            \* return value of the last markdown_to_pdf call
    summary,        \* the printed summary line, <<>> before it is printed
    listing,        \* the printed final listing, <<>> before it is printed
    exitStatus,     \* process exit status, -1 while running
    uncaught,       \* step whose exception propagated out of main(), or "none"
    \* history of the run, not read by the program
    files0,         \* files that existed before the run
    written,        \* paths the run wrote to
    calls,          \* external invocations: [job, step, rc, exc]
    outcome,        \* what happened to each job
    tally           \* what each job added to <<success_count, fail_count>>

vars == <<pc, i, files, pdfSize, pandocInstalled, weasyInstalled, success_count,
          fail_count, ret, summary, listing, exitStatus, uncaught, files0,
          written, calls, outcome, tally>>

env == <<pandocInstalled, weasyInstalled, files0>>
output == <<summary, listing>>
counters == <<success_count, fail_count, tally>>
disk == <<files, pdfSize, written>>

\* ----------------------------------------------------------- pure helpers

\* Variant: the existence test is skipped.
SourceExistsAlways(f, md) == TRUE

\* Path(md_file).exists()
SourceExists(f, md) == md \in f

\* Variant: only positive exit codes count as failure (a signal does not).
ReturnedPositive(rc) == rc > 0

\* result.returncode != 0
ReturnedNonZero(rc) == rc # 0

\* Variant: only the ImportError handler is present.
CaughtImportErrorOnly(exc) == exc = "ImportError"

\* except ImportError / except Exception as e
Caught(exc) == exc = "ImportError" \/ exc \in ExceptionSubclasses

\* Variant: the handlers also remove the intermediate file.
ExceptHandlerRemoves(f, html) == f \ {html}

\* The except handlers only print and return False: the disk is left alone.
ExceptHandler(f, html) == f

\* Variant: the intermediate file is never removed.
RemoveFileSkipped(f, p) == f

\* os.remove(html_file)
RemoveFile(f, p) == f \ {p}

\* Variant: a failed conversion is not counted.
TallySuccessOnly(ok, s, f) == IF ok THEN <<s + 1, f>> ELSE <<s, f>>

\* success_count += 1 / fail_count += 1 on the result of markdown_to_pdf
Tally(ok, s, f) == IF ok THEN <<s + 1, f>> ELSE <<s, f + 1>>

\* Variant: the loop tries the same entry again.
NextIndexRepeat(k) == k

\* the for loop moves on to the next entry of documents
NextIndex(k) == k + 1

\* f"{size_mb:.2f}" of size / (1024 * 1024): hundredths of a megabyte,
\* correctly rounded, ties to even (the quotient is exact in binary).
FormatMB(size) ==
    LET q == (size * 100) \div BytesPerMB
        r == (size * 100) % BytesPerMB
    IN  IF 2 * r > BytesPerMB THEN q + 1
        ELSE IF 2 * r < BytesPerMB THEN q
        ELSE IF q % 2 = 0 THEN q ELSE q + 1

\* Variant: the listing tests the source path instead of the output path.
ListingEntryOfSource(f, sz, j) ==
    IF md_file(j) \in f
    THEN [found |-> TRUE, mb |-> FormatMB(sz[pdf_file(j)])]
    ELSE [found |-> FALSE, mb |-> 0]

\* One line of the final listing.
ListingEntry(f, sz, j) ==
    IF pdf_file(j) \in f
    THEN [found |-> TRUE, mb |-> FormatMB(sz[pdf_file(j)])]
    ELSE [found |-> FALSE, mb |-> 0]

Call(j, step, rc, exc) == [job |-> j, step |-> step, rc |-> rc, exc |-> exc]

\* ------------------------------------------------------------------- Init
Init ==
    /\ pc = "start"
    /\ i = 1
    \* any sources and stale PDFs; the intermediate files of an earlier run
    \* are either all still there or all gone
    /\ \E srcs \in SUBSET (MdPaths \cup PdfPaths), stale \in {{}, HtmlPaths} :
            files = srcs \cup stale
    /\ pdfSize \in [PdfPaths -> Sizes]
    /\ \A p \in PdfPaths : p \notin files => pdfSize[p] = 0
    /\ pandocInstalled \in BOOLEAN
    /\ weasyInstalled \in BOOLEAN
    /\ success_count = 0
    /\ fail_count = 0
    /\ ret = FALSE
    /\ summary = <<>>
    /\ listing = <<>>
    /\ exitStatus = -1
    /\ uncaught = "none"
    /\ files0 = files
    /\ written = {}
    /\ calls = <<>>
    /\ outcome = [j \in Jobs |-> "pending"]
    /\ tally = [j \in Jobs |-> <<0, 0>>]

\* ---------------------------------------------------------------- actions

\* An exception leaves main(): traceback, exit status 1.
Crash(step) ==
    /\ pc' = "exit"
    /\ exitStatus' = 1
    /\ uncaught' = step

\* os.chdir(...) of the hardcoded directory
Chdir ==
    /\ pc = "start"
    /\ \/ /\ pc' = "loop"
          /\ UNCHANGED <<exitStatus, uncaught>>
       \/ Crash("chdir")
    /\ UNCHANGED <<i, disk, env, counters, ret, output, calls, outcome>>

\* for md_file, pdf_file in documents: if Path(md_file).exists(): ... else: ...
LoopStep ==
    /\ pc = "loop"
    /\ IF i > NumDocs
       THEN /\ pc' = "summary"
            /\ UNCHANGED <<i, counters, outcome>>
       ELSE IF SourceExists(files, md_file(i))
       THEN /\ pc' = "pandoc"
            /\ UNCHANGED <<i, counters, outcome>>
       ELSE /\ fail_count' = fail_count + 1
            /\ tally' = [tally EXCEPT ![i] = <<0, 1>>]
            /\ outcome' = [outcome EXCEPT ![i] = "SourceMissing"]
            /\ i' = NextIndex(i)
            /\ pc' = "loop"
            /\ UNCHANGED success_count
    /\ UNCHANGED <<disk, env, ret, output, exitStatus, uncaught, calls>>

\* result = subprocess.run(cmd_html, ...); if result.returncode != 0: return False
RunPandoc ==
    /\ pc = "pandoc"
    /\ IF ~pandocInstalled
       THEN \* FileNotFoundError, raised outside any try block
            /\ Crash("pandoc")
            /\ calls' = Append(calls, Call(i, "pandoc", 127, "FileNotFoundError"))
            /\ outcome' = [outcome EXCEPT ![i] = "ToolMissing"]
            /\ UNCHANGED <<disk, ret>>
       ELSE \E rc \in ReturnCodes :
            /\ calls' = Append(calls, Call(i, "pandoc", rc, "none"))
            /\ UNCHANGED <<pdfSize, exitStatus, uncaught>>
            /\ IF ReturnedNonZero(rc)
               THEN /\ ret' = FALSE
                    /\ pc' = "returned"
               ELSE /\ pc' = "render"
                    /\ UNCHANGED ret
            /\ IF rc = 0
               THEN /\ files' = files \cup {html_file(i)}
                    /\ written' = written \cup {html_file(i)}
                    /\ UNCHANGED outcome
               ELSE /\ outcome' = [outcome EXCEPT ![i] = "HtmlFailed"]
                    \* a failing pandoc may or may not leave a partial output
                    /\ \/ UNCHANGED <<files, written>>
                       \/ /\ files' = files \cup {html_file(i)}
                          /\ written' = written \cup {html_file(i)}
    /\ UNCHANGED <<i, env, counters, output>>

\* try: from weasyprint import HTML; HTML(html_file).write_pdf(pdf_file)
Render ==
    /\ pc = "render"
    /\ \E exc \in (IF weasyInstalled THEN RenderErrors \cup {"none"}
                                     ELSE {"ImportError"}) :
        /\ calls' = Append(calls, Call(i, "render", 0, exc))
        /\ IF exc = "none"
           THEN /\ \E sz \in WrittenSizes :
                     pdfSize' = [pdfSize EXCEPT ![pdf_file(i)] = sz]
                /\ files' = files \cup {pdf_file(i)}
                /\ written' = written \cup {pdf_file(i)}
                /\ pc' = "cleanup"
                /\ UNCHANGED <<ret, outcome, exitStatus, uncaught>>
           ELSE /\ outcome' = [outcome EXCEPT ![i] =
                        IF exc = "ImportError" THEN "RenderMissing"
                                               ELSE "RenderFailed"]
                /\ IF Caught(exc)
                   THEN /\ ret' = FALSE
                        /\ pc' = "returned"
                        /\ UNCHANGED <<exitStatus, uncaught>>
                   ELSE /\ Crash("render")
                        /\ UNCHANGED ret
                \* a failed write may leave a truncated PDF behind
                /\ \/ /\ files' = ExceptHandler(files, html_file(i))
                      /\ UNCHANGED <<pdfSize, written>>
                   \/ /\ exc \in RenderErrors
                      /\ files' = ExceptHandler(files, html_file(i)) \cup {pdf_file(i)}
                      /\ pdfSize' = [pdfSize EXCEPT ![pdf_file(i)] = 0]
                      /\ written' = written \cup {pdf_file(i)}
    /\ UNCHANGED <<i, env, counters, output>>

\* os.remove(html_file); return True  (inside the same try block)
Cleanup ==
    /\ pc = "cleanup"
    /\ \/ /\ files' = RemoveFile(files, html_file(i))
          /\ calls' = Append(calls, Call(i, "remove", 0, "none"))
          /\ outcome' = [outcome EXCEPT ![i] = "Succeeded"]
          /\ ret' = TRUE
          /\ pc' = "returned"
          /\ UNCHANGED <<exitStatus, uncaught>>
       \/ /\ files' = ExceptHandler(files, html_file(i))
          /\ calls' = Append(calls, Call(i, "remove", 0, "OSError"))
          /\ outcome' = [outcome EXCEPT ![i] = "CleanupFailed"]
          /\ IF Caught("OSError")
             THEN /\ ret' = FALSE
                  /\ pc' = "returned"
                  /\ UNCHANGED <<exitStatus, uncaught>>
             ELSE /\ Crash("remove")
                  /\ UNCHANGED ret
    /\ UNCHANGED <<i, pdfSize, written, env, counters, output>>

\* if markdown_to_pdf(...): success_count += 1 else: fail_count += 1
Count ==
    /\ pc = "returned"
    /\ LET t == Tally(ret, success_count, fail_count) IN
        /\ success_count' = t[1]
        /\ fail_count' = t[2]
        /\ tally' = [tally EXCEPT ![i] =
                        <<t[1] - success_count, t[2] - fail_count>>]
    /\ i' = NextIndex(i)
    /\ pc' = "loop"
    /\ UNCHANGED <<disk, env, ret, output, exitStatus, uncaught, calls, outcome>>

\* print(f"Summary: {success_count} successful, {fail_count} failed")
Summary ==
    /\ pc = "summary"
    /\ summary' = <<success_count, fail_count>>
    /\ pc' = "listing"
    /\ UNCHANGED <<i, disk, env, counters, ret, listing, exitStatus, uncaught,
                   calls, outcome>>

\* the final listing; main() then returns and the process exits 0
Listing ==
    /\ pc = "listing"
    /\ listing' = [j \in Jobs |-> ListingEntry(files, pdfSize, j)]
    /\ pc' = "exit"
    /\ exitStatus' = 0
    /\ UNCHANGED <<i, disk, env, counters, ret, summary, uncaught, calls, outcome>>

Next ==
    \/ Chdir
    \/ LoopStep
    \/ RunPandoc
    \/ Render
    \/ Cleanup
    \/ Count
    \/ Summary
    \/ Listing

Spec == Init /\ [][Next]_vars

\* ------------------------------------------------------------- properties

TypeOK ==
    /\ pc \in {"start", "loop", "pandoc", "render", "cleanup", "returned",
               "summary", "listing", "exit"}
    /\ i \in 1..(NumDocs + 1)
    /\ files \subseteq (MdPaths \cup HtmlPaths \cup PdfPaths)
    /\ pdfSize \in [PdfPaths -> Sizes]
    /\ success_count \in 0..NumDocs
    /\ fail_count \in 0..NumDocs
    /\ exitStatus \in {-1, 0, 1}

\* Positions of the log entries of one step of one job.
CallsOf(j, step) == {k \in DOMAIN calls : calls[k].job = j /\ calls[k].step = step}

\* main() has moved past job j.
Passed(j) == i > j

\* The run ended by main() returning.
Finished == pc = "exit" /\ exitStatus = 0

Successful == <<1, 0>>
Failed == <<0, 1>>

\* The external outcomes of job j, as logged.
PandocFailed(j) ==
    \E k \in CallsOf(j, "pandoc") : calls[k].exc = "none" /\ calls[k].rc # 0
PandocSucceeded(j) ==
    \E k \in CallsOf(j, "pandoc") : calls[k].exc = "none" /\ calls[k].rc = 0
RenderRaised(j) == \E k \in CallsOf(j, "render") : calls[k].exc # "none"
RenderSucceeded(j) == \E k \in CallsOf(j, "render") : calls[k].exc = "none"

\* C1: when the summary line is printed its two numbers add up to the number
\* of configured jobs, and every job has added exactly 1 to exactly one of
\* the two counters.
SummaryCountsEveryJob ==
    summary # <<>> =>
        /\ summary[1] + summary[2] = NumDocs
        /\ \A j \in Jobs : tally[j] \in {Successful, Failed}
        /\ summary[1] = Cardinality({j \in Jobs : tally[j] = Successful})
        /\ summary[2] = Cardinality({j \in Jobs : tally[j] = Failed})

SummaryMixedOutcomes ==
    /\ summary = <<1, 2>>
    /\ \E a, b, c \in Jobs :
        /\ outcome[a] = "SourceMissing"
        /\ outcome[b] \in {"HtmlFailed", "RenderFailed"}
        /\ outcome[c] = "Succeeded"

\* C2: no error met while processing a job is fatal: the run reaches every
\* job, prints the summary and exits with status 0.
NoErrorFatal ==
    (pc = "exit" /\ uncaught # "chdir") =>
        /\ exitStatus = 0
        /\ summary # <<>>
        /\ \A j \in Jobs : outcome[j] # "pending"

\* C3: a job whose source does not exist is counted as failed, no external
\* step is invoked for it, and the run writes neither its HTML nor its PDF.
MissingSourceUntouched ==
    \A j \in Jobs : md_file(j) \notin files0 =>
        /\ \A k \in DOMAIN calls : calls[k].job # j
        /\ html_file(j) \notin written
        /\ pdf_file(j) \notin written
        /\ Passed(j) => (tally[j] = Failed /\ outcome[j] = "SourceMissing")
        /\ i = j => pc \notin {"pandoc", "render", "cleanup", "returned"}

MissingSourceAmongOthers ==
    /\ Finished
    /\ md_file(2) \notin files0
    /\ pdf_file(2) \in files0
    /\ tally[2] = Failed
    /\ outcome[1] = "Succeeded"
    /\ outcome[3] = "Succeeded"

\* C4: after a non-zero exit of the Markdown-to-HTML step the render step is
\* never invoked for the job, the run writes no PDF for it, the job is
\* counted as failed and never as successful, and the run goes on to the
\* jobs after it.
PandocFailureSkipsRender ==
    \A j \in Jobs : PandocFailed(j) =>
        /\ CallsOf(j, "render") = {}
        /\ CallsOf(j, "remove") = {}
        /\ pdf_file(j) \notin written
        /\ tally[j] # Successful
        /\ i >= j
        /\ i = j => pc = "returned" /\ ret = FALSE
        /\ Passed(j) => tally[j] = Failed
        /\ pc = "exit" => (exitStatus = 0 /\ \A n \in Jobs : outcome[n] # "pending")

PandocKilledThenNextJobRuns ==
    /\ Finished
    /\ \E k \in CallsOf(1, "pandoc") : calls[k].rc = -9
    /\ tally[1] = Failed
    /\ outcome[2] = "Succeeded"

\* C5: once the run has ended, every job counted as successful has no
\* intermediate HTML file and has a PDF file of size > 0.
SuccessLeavesPdfOnly ==
    pc = "exit" =>
        \A j \in Jobs : tally[j] = Successful =>
            /\ html_file(j) \notin files
            /\ pdf_file(j) \in files
            /\ pdfSize[pdf_file(j)] > 0

SuccessOverStaleFiles ==
    /\ Finished
    /\ \E j \in Jobs :
        /\ tally[j] = Successful
        /\ html_file(j) \in files0
        /\ pdf_file(j) \in files0
        /\ html_file(j) \notin files

\* C6: a job whose source exists and whose two external steps both succeed
\* has its intermediate HTML removed, has its PDF, and is counted successful.
BothStepsSucceedMeansSuccess ==
    \A j \in Jobs :
        (md_file(j) \in files0 /\ PandocSucceeded(j) /\ RenderSucceeded(j) /\ Passed(j)) =>
            /\ html_file(j) \notin files
            /\ pdf_file(j) \in files
            /\ tally[j] = Successful

\* C7: an exception of the render step, a failed import included, never
\* leaves markdown_to_pdf: the function returns False and the job is counted
\* as failed.
RenderExceptionsCaught ==
    /\ uncaught # "render"
    /\ \A j \in Jobs : RenderRaised(j) =>
        /\ outcome[j] \in {"RenderMissing", "RenderFailed"}
        /\ i >= j
        /\ i = j => (pc = "returned" /\ ret = FALSE)
        /\ Passed(j) => tally[j] = Failed

RendererMissingForEveryJob ==
    /\ Finished
    /\ summary = <<0, NumDocs>>
    /\ \A j \in Jobs : \E k \in CallsOf(j, "render") : calls[k].exc = "ImportError"

\* C8 as stated: a job whose source is absent is counted as failed and is
\* listed NOT FOUND; every job is listed with existence and size if its
\* output is present and NOT FOUND otherwise.
MissingSourceListedNotFound ==
    Finished =>
        \A j \in Jobs :
            /\ md_file(j) \notin files0 => (tally[j] = Failed /\ ~listing[j].found)
            /\ listing[j].found = (pdf_file(j) \in files)

\* C8 amended: a job whose source is absent is counted as failed; it is
\* listed NOT FOUND when no file was at its output path before the run, and
\* listed as present when a stale PDF was there.  Every job is listed with
\* existence and size in hundredths of a megabyte if its output is present
\* and NOT FOUND otherwise.
MissingSourceListedByOutputFile ==
    Finished =>
        \A j \in Jobs :
            /\ md_file(j) \notin files0 =>
                /\ tally[j] = Failed
                /\ listing[j].found = (pdf_file(j) \in files0)
            /\ listing[j].found = (pdf_file(j) \in files)
            /\ listing[j].found => listing[j].mb = FormatMB(pdfSize[pdf_file(j)])

ListingShowsBothKinds ==
    /\ Finished
    /\ \E a, b \in Jobs :
        /\ md_file(a) \notin files0
        /\ pdf_file(a) \notin files0
        /\ ~listing[a].found
        /\ md_file(b) \in files0
        /\ listing[b].found
        /\ listing[b].mb = 12

\* C9: the external steps happen job after job in list order, each at most
\* once, a job is never taken up again, the render step of a job directly
\* follows a Markdown-to-HTML step of the same job that exited 0, and when
\* the loop is over every job has been handled.
SequentialOnceInOrder ==
    /\ \A k, m \in DOMAIN calls : k < m =>
        /\ calls[k].job <= calls[m].job
        /\ ~(calls[k].job = calls[m].job /\ calls[k].step = calls[m].step)
    /\ \A k \in DOMAIN calls :
        /\ calls[k].job <= i
        /\ calls[k].job = i => pc \in {"render", "cleanup", "returned", "exit"}
        /\ calls[k].step = "render" =>
            (k > 1 /\ calls[k - 1] = Call(calls[k].job, "pandoc", 0, "none"))
    /\ \A j \in Jobs : Passed(j) => tally[j] \in {Successful, Failed}
    /\ pc \in {"summary", "listing"} \/ Finished =>
        \A j \in Jobs : outcome[j] # "pending"

ThreeJobsInOrder ==
    /\ Finished
    /\ Len(calls) = 6
    /\ calls[1].job = 1 /\ calls[1].rc = 1
    /\ calls[2].job = 2 /\ calls[3].job = 2 /\ calls[3].exc = "OSError"
    /\ calls[4].job = 3 /\ calls[6].step = "remove" /\ calls[6].exc = "none"

\* C10: the intermediate HTML of a job is removed only right after the
\* job's PDF write returned without error; when the render step raises, the
\* HTML that was generated is never removed and is still there when the run
\* ends, and the job is counted as failed.
HtmlKeptWhenRenderFails ==
    /\ \A k \in DOMAIN calls : calls[k].step = "remove" =>
        (k > 1 /\ calls[k - 1] = Call(calls[k].job, "render", 0, "none"))
    /\ \A j \in Jobs :
        /\ (html_file(j) \in written /\ html_file(j) \notin files) =>
            \E k \in CallsOf(j, "remove") : calls[k].exc = "none"
        /\ RenderRaised(j) =>
            /\ html_file(j) \in files
            /\ CallsOf(j, "remove") = {}
            /\ Passed(j) => tally[j] = Failed

HtmlLeftBehind ==
    /\ Finished
    /\ \E j \in Jobs :
        /\ RenderRaised(j)
        /\ html_file(j) \notin files0
        /\ html_file(j) \in files
        /\ tally[j] = Failed
    /\ \E n \in Jobs : outcome[n] = "Succeeded"

====
